---- MODULE Spec2Model ----
(***************************************************************************)
(* Model of src/src/str_helpers.h (namespace str): the UCharBuffer holder  *)
(* (owned / non-owned UChar* buffer), the to_icu_raw() entry points that   *)
(* build it, and the to_utf8() / to_wstring() codec functions.             *)
(*                                                                         *)
(* Memory is modelled explicitly: heap blocks made by new UChar[], the     *)
(* function-local static buffer of UCharBuffer::null(), and the storage of *)
(* the caller's wide strings.  Every region counts the delete[] calls the  *)
(* component issued on it.                                                 *)
(***************************************************************************)
EXTENDS Integers, Sequences, FiniteSets, TLC

VARIABLES
    wcharSize,  \* SIZEOF_WCHAR_T of the build: 2 or 4
    mem,        \* [heap, static, src]: the memory regions
    holders,    \* the UCharBuffer objects constructed so far, in order
    pc,         \* position of each thread of the two-thread scenario
    mine,       \* the holders each thread of the scenario constructed
    codec       \* the latest codec round trip (to_utf8 / to_wstring)

vars == <<wcharSize, mem, holders, pc, mine, codec>>

----------------------------------------------------------------------------
(* Bounds of the model *)

\* UCharBuffer objects constructed in one run
NumHolders == 2
\* caller-owned wide strings in one run
NumSources == 1
\* largest length passed to a direct UCharBuffer::owned(length) call
MaxOwnedLen == 1
\* longest string given to the codec round trips
MaxLen == 4

Threads == {"t1", "t2"}

----------------------------------------------------------------------------
(* ICU error codes (unicode/utypes.h) as used at lines 261-268 / 283-290 *)

U_ZERO_ERROR == 0
U_ILLEGAL_ARGUMENT_ERROR == 1
U_INVALID_CHAR_FOUND == 10
U_BUFFER_OVERFLOW_ERROR == 15
U_STRING_NOT_TERMINATED_WARNING == 0 - 124

U_FAILURE(e) == e > U_ZERO_ERROR
U_SUCCESS(e) == e <= U_ZERO_ERROR

----------------------------------------------------------------------------
(* Pointers and memory *)

\* value of a cell that new UChar[n] left uninitialised
Indeterminate == 0 - 1

NullPtr == [kind |-> "null", id |-> 0]
StaticPtr == [kind |-> "static", id |-> 0]
HeapPtr(b) == [kind |-> "heap", id |-> b]
SrcPtr(s) == [kind |-> "src", id |-> s]

\* static UChar empty[1] = {0};
StaticEmpty == [cells |-> <<0>>, released |-> 0]

InitMem == [heap |-> <<>>, static |-> StaticEmpty, src |-> <<>>]

\* new UChar[n]: a fresh block of n uninitialised cells
NewArray(m, n) ==
    [mem |-> [m EXCEPT !.heap = Append(@, [cells |-> [i \in 1..n |-> Indeterminate],
                                             released |-> 0])],
     ptr |-> HeapPtr(Len(m.heap) + 1)]

\* delete[] p: a no-op on nullptr, otherwise the region p points to is released
\* (a released heap block has no content left)
DeleteArray(m, p) ==
    CASE p.kind = "null" -> m
      [] p.kind = "heap" -> [m EXCEPT !.heap[p.id].released = @ + 1,
                                      !.heap[p.id].cells = <<>>]
      [] p.kind = "static" -> [m EXCEPT !.static.released = @ + 1]
      [] p.kind = "src" -> [m EXCEPT !.src[p.id].released = @ + 1]

\* the transform's output written through buf.data(), from the first cell on
WriteCells(m, p, out) ==
    IF p.kind = "heap"
    THEN [m EXCEPT !.heap[p.id].cells =
              [i \in 1..Len(@) |-> IF i <= Len(out) THEN out[i] ELSE @[i]]]
    ELSE m

\* the code units a pointer refers to
Cells(m, p) ==
    CASE p.kind = "null" -> <<>>
      [] p.kind = "heap" -> m.heap[p.id].cells
      [] p.kind = "static" -> m.static.cells
      [] p.kind = "src" -> IF m.src[p.id].state = "alive"
                           THEN Append(m.src[p.id].text, 0) ELSE <<>>

\* the memory a pointer refers to is still there
Valid(m, p) ==
    CASE p.kind = "null" -> FALSE
      [] p.kind = "heap" -> m.heap[p.id].released = 0
      [] p.kind = "static" -> m.static.released = 0
      [] p.kind = "src" -> m.src[p.id].state = "alive" /\ m.src[p.id].released = 0

----------------------------------------------------------------------------
(* class UCharBuffer *)

\* private constructor UCharBuffer(bool owned, const UChar *data, int32_t capacity)
UCharBuffer(o, d, c) == [m_owned |-> o, m_data |-> d, m_capacity |-> c]

\* owned() with the room for the terminating null forgotten
owned_exact(m, length) ==
    LET a == NewArray(m, length)
    IN [mem |-> a.mem, buf |-> [m_owned |-> TRUE, m_data |-> a.ptr, m_capacity |-> length]]

\* static UCharBuffer owned(int32_t length)
owned(m, length) ==
    LET a == NewArray(m, length + 1)
    IN [mem |-> a.mem, buf |-> UCharBuffer(TRUE, a.ptr, length + 1)]

\* static UCharBuffer non_owned(const UChar *data)
non_owned(data) == UCharBuffer(FALSE, data, 0 - 1)

\* null() claiming ownership of the static buffer
null_owned == [m_owned |-> TRUE, m_data |-> StaticPtr, m_capacity |-> 0]

\* static UCharBuffer null()
null == UCharBuffer(FALSE, StaticPtr, 0)

\* a move constructor that copies m_owned instead of exchanging it
MoveCtor_keeps_owned(other) ==
    [new |-> [m_owned |-> other.m_owned, m_data |-> other.m_data,
              m_capacity |-> other.m_capacity],
     other |-> [m_owned |-> other.m_owned, m_data |-> NullPtr, m_capacity |-> 0]]

\* UCharBuffer(UCharBuffer&& other): std::exchange of the three members
MoveCtor(other) ==
    [new |-> UCharBuffer(other.m_owned, other.m_data, other.m_capacity),
     other |-> UCharBuffer(FALSE, NullPtr, 0)]

\* a destructor that releases m_data whether owned or not
Destructor_unconditional(m, b) == DeleteArray(m, b.m_data)

\* a destructor that never releases
Destructor_leak(m, b) == m

\* ~UCharBuffer()
Destructor(m, b) == IF b.m_owned THEN DeleteArray(m, b.m_data) ELSE m

\* int32_t capacity()
capacity(b) == b.m_capacity

----------------------------------------------------------------------------
(* The ICU transforms called by to_icu_raw (unicode/ustring.h).  Strings   *)
(* are NUL-terminated: a string is the sequence of its non-zero units and  *)
(* reading one position past it yields the terminator.                     *)

At(s, i) == IF i <= Len(s) THEN s[i] ELSE 0

\* U16_LEAD / U16_TRAIL of a supplementary code point, as 16-bit units
U16_LEAD(c) == ((c \div 1024) + 55232) % 65536
U16_TRAIL(c) == (c % 1024) + 56320

\* u_terminateUChars(dest, destCapacity, length, pErrorCode): the error code left
TerminateErr(destCapacity, length, err) ==
    IF ~U_SUCCESS(err) THEN err
    ELSE IF length < destCapacity
         THEN (IF err = U_STRING_NOT_TERMINATED_WARNING THEN U_ZERO_ERROR ELSE err)
    ELSE IF length = destCapacity THEN U_STRING_NOT_TERMINATED_WARNING
    ELSE U_BUFFER_OVERFLOW_ERROR

\* the cells a transform producing `units` leaves in a buffer of destCapacity units
\* (exact for destCapacity = 0 and destCapacity > Len(units), the two calls made)
Written(destCapacity, units) ==
    IF Len(units) < destCapacity THEN Append(units, 0)
    ELSE SubSeq(units, 1, destCapacity)

\* the UTF-16 units the lenient UTF-8 transform makes of the bytes from position i
RECURSIVE LenientUnits(_, _)
LenientUnits(s, i) ==
    LET ch == At(s, i)
        t1 == At(s, i + 1)
        t2 == At(s, i + 2)
        t3 == At(s, i + 3)
    IN IF ch = 0 THEN <<>>
       ELSE IF ch < 192
            \* ASCII, or a trail byte in lead position: a single-byte sequence
            THEN <<ch>> \o LenientUnits(s, i + 1)
       ELSE IF ch < 224 /\ t1 # 0
            THEN <<(ch * 64 + t1 - 12416) % 65536>> \o LenientUnits(s, i + 2)
       ELSE IF ch >= 224 /\ ch < 240 /\ t1 # 0 /\ t2 # 0
            THEN <<(ch * 4096 + t1 * 64 + t2 - 8320) % 65536>> \o LenientUnits(s, i + 3)
       ELSE IF ch >= 240 /\ t1 # 0 /\ t2 # 0 /\ t3 # 0
            THEN LET c == ch * 262144 + t1 * 4096 + t2 * 64 + t3 - 63447168
                 IN <<U16_LEAD(c), U16_TRAIL(c)>> \o LenientUnits(s, i + 4)
       \* truncated character at the end
       ELSE <<65533>>

\* u_strFromUTF8Lenient(dest, destCapacity, pDestLength, src, -1, pErrorCode)
\*   set: *pDestLength was written; len: its value; out: the cells written to dest
u_strFromUTF8Lenient(hasDest, destCapacity, src, err) ==
    IF U_FAILURE(err)
    THEN [set |-> FALSE, len |-> 0, err |-> err, out |-> <<>>]
    ELSE IF destCapacity < 0 \/ (~hasDest /\ destCapacity > 0)
    THEN [set |-> FALSE, len |-> 0, err |-> U_ILLEGAL_ARGUMENT_ERROR, out |-> <<>>]
    ELSE LET units == LenientUnits(src, 1)
         IN [set |-> TRUE, len |-> Len(units),
             err |-> TerminateErr(destCapacity, Len(units), err),
             out |-> Written(destCapacity, units)]

\* a UTF-32 unit that is a Unicode scalar value
IsScalar(c) == (c >= 0 /\ c < 55296) \/ (c >= 57344 /\ c <= 1114111)

\* the units before the first UTF-32 unit that is no scalar value
RECURSIVE ScalarPrefix(_)
ScalarPrefix(s) ==
    IF s = <<>> \/ ~IsScalar(Head(s)) THEN <<>>
    ELSE <<Head(s)>> \o ScalarPrefix(Tail(s))

\* the UTF-16 units of a sequence of scalar values
RECURSIVE Utf16Of(_)
Utf16Of(s) ==
    IF s = <<>> THEN <<>>
    ELSE LET c == Head(s)
         IN (IF c < 65536 THEN <<c>> ELSE <<U16_LEAD(c), U16_TRAIL(c)>>)
            \o Utf16Of(Tail(s))

\* u_strFromUTF32(dest, destCapacity, pDestLength, src, -1, pErrorCode)
u_strFromUTF32(hasDest, destCapacity, src, err) ==
    IF U_FAILURE(err)
    THEN [set |-> FALSE, len |-> 0, err |-> err, out |-> <<>>]
    ELSE IF destCapacity < 0 \/ (~hasDest /\ destCapacity > 0)
    THEN [set |-> FALSE, len |-> 0, err |-> U_ILLEGAL_ARGUMENT_ERROR, out |-> <<>>]
    ELSE LET good == ScalarPrefix(src)
             units == Utf16Of(good)
         IN IF Len(good) < Len(src)
            \* a surrogate code point, or no code point at all: returns at once
            THEN [set |-> FALSE, len |-> 0, err |-> U_INVALID_CHAR_FOUND,
                  out |-> SubSeq(units, 1, IF Len(units) < destCapacity
                                           THEN Len(units) ELSE destCapacity)]
            ELSE [set |-> TRUE, len |-> Len(units),
                  err |-> TerminateErr(destCapacity, Len(units), err),
                  out |-> Written(destCapacity, units)]

----------------------------------------------------------------------------
(* to_icu_raw *)

\* err = U_ZERO_ERROR; before the second pass
ResetErr(err) == U_ZERO_ERROR

\* The measure / allocate / transcode sequence shared by to_icu_raw(const char*)
\* and the 32-bit branch of to_icu_raw(const wchar_t*).  wide tells which ICU
\* transform is called; fault: the transcoding pass reports a failure although the
\* measure pass succeeded (the case lines 268 and 290 provide for).
\*   ret: the holder returned; mem: the memory afterwards; destLen: the
\*   measured length; failed: the transcoding pass ran and reported a failure
MeasureAllocTranscode(m, wide, str, fault) ==
    LET convert(hasDest, destCapacity, src, e) ==
            IF wide THEN u_strFromUTF32(hasDest, destCapacity, src, e)
                    ELSE u_strFromUTF8Lenient(hasDest, destCapacity, src, e)
        r1 == convert(FALSE, 0, str, U_ZERO_ERROR)
        destLen == IF r1.set THEN r1.len ELSE 0
    IN IF destLen = 0
       THEN [ret |-> null, mem |-> m, destLen |-> 0, failed |-> FALSE, path |-> "null"]
       ELSE LET a == owned(m, destLen)
                buf == a.buf
                r2 == convert(TRUE, capacity(buf), str, ResetErr(r1.err))
                err == IF fault /\ ~U_FAILURE(r2.err) THEN U_INVALID_CHAR_FOUND ELSE r2.err
                out == IF fault THEN SubSeq(r2.out, 1, Len(r2.out) - 1) ELSE r2.out
                m2 == WriteCells(a.mem, buf.m_data, out)
            IN IF U_FAILURE(err)
               \* return UCharBuffer::null(); buf is destroyed on the way out
               THEN [ret |-> null, mem |-> Destructor(m2, buf),
                     destLen |-> destLen, failed |-> TRUE, path |-> "null"]
               \* return buf; the local is moved from, then destroyed
               ELSE LET mv == MoveCtor(buf)
                    IN [ret |-> mv.new, mem |-> Destructor(m2, mv.other),
                        destLen |-> destLen, failed |-> FALSE, path |-> "owned"]

\* UCharBuffer to_icu_raw(const char *str)
to_icu_raw_utf8(m, str, fault) ==
    MeasureAllocTranscode(m, FALSE, str, fault)

\* to_icu_raw(const wchar_t*) taking the aliasing branch whatever the width
to_icu_raw_wide_alias(w, m, s, fault) ==
    [ret |-> non_owned(SrcPtr(s)), mem |-> m, destLen |-> 0, failed |-> FALSE,
     path |-> "non_owned"]

\* UCharBuffer to_icu_raw(const wchar_t *str), str being the storage of source s
to_icu_raw_wide(w, m, s, fault) ==
    IF w = 2
    THEN [ret |-> non_owned(SrcPtr(s)), mem |-> m, destLen |-> 0, failed |-> FALSE,
          path |-> "non_owned"]
    ELSE MeasureAllocTranscode(m, TRUE, m.src[s].text, fault)

----------------------------------------------------------------------------
(* to_utf8 / to_wstring: boost::locale::conv::utf_to_utf with the default  *)
(* method (skip): every character is decoded from the input encoding and   *)
(* encoded in the output encoding; what does not decode is left out.       *)

\* utf_traits<char>: number of trail bytes a lead byte announces (-1: illegal)
TrailLength(c) ==
    IF c < 128 THEN 0
    ELSE IF c < 194 THEN 0 - 1
    ELSE IF c < 224 THEN 1
    ELSE IF c < 240 THEN 2
    ELSE IF c <= 244 THEN 3
    ELSE 0 - 1

IsTrail(c) == c >= 128 /\ c < 192

\* utf_traits<char>::width
Utf8Width(c) ==
    IF c <= 127 THEN 1 ELSE IF c <= 2047 THEN 2 ELSE IF c <= 65535 THEN 3 ELSE 4

\* utf::is_valid_codepoint
IsValidCodepoint(c) == c >= 0 /\ c <= 1114111 /\ ~(c >= 55296 /\ c <= 57343)

Pow2(n) == IF n = 5 THEN 32 ELSE IF n = 4 THEN 16 ELSE IF n = 3 THEN 8 ELSE 64

\* the trail bytes of utf_traits<char>::decode: n bytes from position p on
RECURSIVE DecodeTrail(_, _, _, _)
DecodeTrail(s, p, n, c) ==
    IF n = 0 THEN [ok |-> TRUE, cp |-> c, next |-> p]
    ELSE IF p > Len(s) THEN [ok |-> FALSE, cp |-> 0, next |-> p]
    ELSE IF ~IsTrail(s[p]) THEN [ok |-> FALSE, cp |-> 0, next |-> p + 1]
    ELSE DecodeTrail(s, p + 1, n - 1, c * 64 + (s[p] % 64))

\* utf_traits<char>::decode at position p
Decode8(s, p) ==
    LET lead == s[p]
        n == TrailLength(lead)
    IN IF n < 0 THEN [ok |-> FALSE, cp |-> 0, next |-> p + 1]
       ELSE IF n = 0 THEN [ok |-> TRUE, cp |-> lead, next |-> p + 1]
       ELSE LET d == DecodeTrail(s, p + 1, n, lead % Pow2(6 - n))
            IN IF ~d.ok THEN d
               ELSE IF ~IsValidCodepoint(d.cp) \/ Utf8Width(d.cp) # n + 1
                    THEN [ok |-> FALSE, cp |-> 0, next |-> d.next]
               ELSE d

\* the code points of a UTF-8 byte string from position p on
RECURSIVE FromUtf8(_, _)
FromUtf8(s, p) ==
    IF p > Len(s) THEN <<>>
    ELSE LET d == Decode8(s, p)
         IN (IF d.ok THEN <<d.cp>> ELSE <<>>) \o FromUtf8(s, d.next)

\* utf_traits<wchar_t, 2>::decode at position p
Decode16(s, p) ==
    LET w1 == s[p]
    IN IF w1 < 55296 \/ w1 > 57343 THEN [ok |-> TRUE, cp |-> w1, next |-> p + 1]
       ELSE IF w1 > 56319 THEN [ok |-> FALSE, cp |-> 0, next |-> p + 1]
       ELSE IF p + 1 > Len(s) THEN [ok |-> FALSE, cp |-> 0, next |-> p + 1]
       ELSE IF s[p + 1] < 56320 \/ s[p + 1] > 57343
            THEN [ok |-> FALSE, cp |-> 0, next |-> p + 2]
       ELSE [ok |-> TRUE, cp |-> 65536 + (w1 % 1024) * 1024 + (s[p + 1] % 1024),
             next |-> p + 2]

\* utf_traits<wchar_t, 4>::decode at position p
Decode32(s, p) ==
    IF IsValidCodepoint(s[p]) THEN [ok |-> TRUE, cp |-> s[p], next |-> p + 1]
    ELSE [ok |-> FALSE, cp |-> 0, next |-> p + 1]

\* the code points of a wide string of w-byte units from position p on
RECURSIVE FromWide(_, _, _)
FromWide(w, s, p) ==
    IF p > Len(s) THEN <<>>
    ELSE LET d == IF w = 2 THEN Decode16(s, p) ELSE Decode32(s, p)
         IN (IF d.ok THEN <<d.cp>> ELSE <<>>) \o FromWide(w, s, d.next)

\* utf_traits<char>::encode
Encode8(c) ==
    IF c <= 127 THEN <<c>>
    ELSE IF c <= 2047 THEN <<192 + (c \div 64), 128 + (c % 64)>>
    ELSE IF c <= 65535
         THEN <<224 + (c \div 4096), 128 + ((c \div 64) % 64), 128 + (c % 64)>>
    ELSE <<240 + (c \div 262144), 128 + ((c \div 4096) % 64),
           128 + ((c \div 64) % 64), 128 + (c % 64)>>

\* utf_traits<wchar_t>::encode for w-byte units
EncodeWide(w, c) ==
    IF w = 4 \/ c <= 65535 THEN <<c>>
    ELSE <<55296 + ((c - 65536) \div 1024), 56320 + ((c - 65536) % 1024)>>

RECURSIVE ToUtf8Units(_)
ToUtf8Units(cps) ==
    IF cps = <<>> THEN <<>> ELSE Encode8(Head(cps)) \o ToUtf8Units(Tail(cps))

RECURSIVE ToWideUnits(_, _)
ToWideUnits(w, cps) ==
    IF cps = <<>> THEN <<>> ELSE EncodeWide(w, Head(cps)) \o ToWideUnits(w, Tail(cps))

\* std::string to_utf8(const std::wstring& str), wchar_t being w bytes
to_utf8(w, str) == ToUtf8Units(FromWide(w, str, 1))

\* to_wstring widening every byte to a character of its own
to_wstring_widen(w, utf8str) == utf8str

\* std::wstring to_wstring(const std::string& utf8str)
to_wstring(w, utf8str) == ToWideUnits(w, FromUtf8(utf8str, 1))

----------------------------------------------------------------------------
(* Inputs *)

\* UTF-8 byte strings given to to_icu_raw: empty, a lone continuation byte,
\* a two-byte character, a four-byte character
Utf8Inputs ==
    {<<>>, <<128>>, <<195, 169>>, <<240, 159, 152, 128>>}

\* wide strings the caller holds: empty, an unpaired surrogate, and text with
\* a supplementary character in the encoding of the build
WideTexts(w) ==
    IF w = 2 THEN {<<>>, <<55296>>, <<65, 55357, 56832>>}
    ELSE {<<>>, <<55296>>, <<65, 128512>>}

\* strings of at most n units over an alphabet
SeqsUpTo(S, n) == UNION {[1..k -> S] : k \in 0..n}

\* "café" in UTF-8 and as wide characters
CafeUtf8 == <<99, 97, 102, 195, 169>>
CafeWide == <<99, 97, 102, 233>>

\* bytes of the codec inputs: 'a', two trail bytes (0x80 makes E0 80 and
\* F0 80 overlong, 0xA0 makes E0 A0 80 and F0 A0 80 80 well formed), and the
\* lead bytes of two-, three- and four-byte characters
Utf8Alphabet == {97, 128, 160, 195, 224, 240}

\* units of the codec inputs: BMP characters, a lead and a trail surrogate,
\* and (4-byte wchar_t) a supplementary character and a value past U+10FFFF
WideAlphabet(w) ==
    IF w = 2 THEN {97, 233, 2048, 55296, 56320}
    ELSE {97, 233, 65536, 55296, 1114112}

Utf8Strings == SeqsUpTo(Utf8Alphabet, MaxLen) \cup {CafeUtf8}
WideStrings(w) == SeqsUpTo(WideAlphabet(w), MaxLen) \cup {CafeWide}

----------------------------------------------------------------------------
(* State *)

\* How a holder came to be: the call that returned it (op), the source and
\* the input text of a to_icu_raw call, the measured length (the length asked
\* for, for owned), whether its transcoding pass reported a failure, and the
\* number of heap blocks before and after the call
Made(op, src, text, destLen, failed, heap0, heap1) ==
    [op |-> op, src |-> src, text |-> text, destLen |-> destLen,
     failed |-> failed, heap0 |-> heap0, heap1 |-> heap1]

NoMade == Made("none", 0, <<>>, 0, FALSE, 0, 0)

\* a UCharBuffer object; origin: the factory its members come from; made: the
\* call it was returned by; moved: the holder it was move-constructed from
\* (0: none); was: the members it was constructed with
Obj(b, origin, made, moved, was) ==
    [live |-> TRUE, buf |-> b, origin |-> origin, made |-> made, moved |-> moved,
     was |-> was]

NoBuffer == UCharBuffer(FALSE, NullPtr, 0)

\* a destroyed object: its members are no more
Destroyed ==
    [live |-> FALSE, buf |-> NoBuffer, origin |-> "destroyed", made |-> NoMade,
     moved |-> 0, was |-> NoBuffer]

NoRoundTrip == [op |-> "none", arg |-> <<>>, mid |-> <<>>, back |-> <<>>]

Init ==
    /\ wcharSize \in {2, 4}
    /\ mem = InitMem
    /\ holders = <<>>
    /\ pc = [t \in Threads |-> "start"]
    /\ mine = [t \in Threads |-> <<>>]
    /\ codec = NoRoundTrip

Live(h) == h \in 1..Len(holders) /\ holders[h].live

(* The operations on the current state; each action below is one of them. *)

\* UCharBuffer::owned(length)
DoOwned(length) ==
    LET a == owned(mem, length)
    IN /\ mem' = a.mem
       /\ holders' = Append(holders,
              Obj(a.buf, "owned",
                  Made("owned", 0, <<>>, length, FALSE,
                       Len(mem.heap), Len(a.mem.heap)),
                  0, a.buf))

\* UCharBuffer::non_owned(data), data being the storage of source s
DoNonOwned(s) ==
    /\ holders' = Append(holders,
           Obj(non_owned(SrcPtr(s)), "non_owned",
               Made("non_owned", s, <<>>, 0, FALSE, Len(mem.heap), Len(mem.heap)),
               0, non_owned(SrcPtr(s))))
    /\ mem' = mem

\* UCharBuffer::null()
DoNull ==
    /\ holders' = Append(holders,
           Obj(null, "null",
               Made("null", 0, <<>>, 0, FALSE, Len(mem.heap), Len(mem.heap)),
               0, null))
    /\ mem' = mem

\* UCharBuffer fresh(std::move(holders[h]))
DoMove(h) ==
    /\ LET mv == MoveCtor(holders[h].buf)
       IN holders' = Append([holders EXCEPT ![h].buf = mv.other,
                                            ![h].origin = "moved_from",
                                            ![h].made = NoMade,
                                            ![h].moved = 0,
                                            ![h].was = NoBuffer],
                            Obj(mv.new, holders[h].origin, holders[h].made, h,
                                holders[h].buf))
    /\ mem' = mem

\* holders[h] goes out of scope
DoDestroy(h) ==
    /\ mem' = Destructor(mem, holders[h].buf)
    /\ holders' = [holders EXCEPT ![h] = Destroyed]

\* to_icu_raw(const char*) / to_icu_raw(const std::string&)
DoToIcuRawUtf8(str, fault) ==
    \E r \in {to_icu_raw_utf8(mem, str, fault)} :
       /\ mem' = r.mem
       /\ holders' = Append(holders,
              Obj(r.ret, r.path,
                  Made("to_icu_raw_utf8", 0, str, r.destLen, r.failed,
                       Len(mem.heap), Len(r.mem.heap)),
                  0, r.ret))

\* to_icu_raw(const std::wstring&) / to_icu_raw(const wxString&) on source s
DoToIcuRawWide(s, fault) ==
    \E r \in {to_icu_raw_wide(wcharSize, mem, s, fault)} :
       /\ mem' = r.mem
       /\ holders' = Append(holders,
              Obj(r.ret, r.path,
                  Made("to_icu_raw_wide", s, mem.src[s].text, r.destLen, r.failed,
                       Len(mem.heap), Len(r.mem.heap)),
                  0, r.ret))

(* A single caller using the whole interface *)

CallOwned(length) ==
    /\ Len(holders) < NumHolders
    /\ DoOwned(length)
    /\ UNCHANGED <<wcharSize, pc, mine, codec>>

CallNonOwned(s) ==
    /\ Len(holders) < NumHolders
    /\ s \in 1..Len(mem.src) /\ mem.src[s].state = "alive"
    /\ DoNonOwned(s)
    /\ UNCHANGED <<wcharSize, pc, mine, codec>>

CallNull ==
    /\ Len(holders) < NumHolders
    /\ DoNull
    /\ UNCHANGED <<wcharSize, pc, mine, codec>>

MoveConstruct(h) ==
    /\ Len(holders) < NumHolders
    /\ Live(h)
    /\ DoMove(h)
    /\ UNCHANGED <<wcharSize, pc, mine, codec>>

Destroy(h) ==
    /\ Live(h)
    /\ DoDestroy(h)
    /\ UNCHANGED <<wcharSize, pc, mine, codec>>

ToIcuRawUtf8(str, fault) ==
    /\ Len(holders) < NumHolders
    /\ DoToIcuRawUtf8(str, fault)
    /\ UNCHANGED <<wcharSize, pc, mine, codec>>

ToIcuRawWide(s, fault) ==
    /\ Len(holders) < NumHolders
    /\ s \in 1..Len(mem.src) /\ mem.src[s].state = "alive"
    /\ DoToIcuRawWide(s, fault)
    /\ UNCHANGED <<wcharSize, pc, mine, codec>>

\* the caller creates a wide string
CreateSource(text) ==
    /\ Len(mem.src) < NumSources
    /\ mem' = [mem EXCEPT !.src = Append(@, [text |-> text, state |-> "alive",
                                              released |-> 0])]
    /\ UNCHANGED <<wcharSize, holders, pc, mine, codec>>

\* the caller modifies its wide string: the storage handed out before is gone
ModifySource(s) ==
    /\ s \in 1..Len(mem.src) /\ mem.src[s].state = "alive"
    /\ mem' = [mem EXCEPT !.src[s].state = "gone", !.src[s].text = <<>>]
    /\ UNCHANGED <<wcharSize, holders, pc, mine, codec>>

\* the caller's wide string is destroyed: its storage is gone
DestroySource(s) ==
    /\ s \in 1..Len(mem.src) /\ mem.src[s].state = "alive"
    /\ mem' = [mem EXCEPT !.src[s].state = "gone", !.src[s].text = <<>>]
    /\ UNCHANGED <<wcharSize, holders, pc, mine, codec>>

Next ==
    \/ \E length \in 0..MaxOwnedLen : CallOwned(length)
    \/ \E s \in 1..NumSources : CallNonOwned(s)
    \/ CallNull
    \/ \E h \in 1..NumHolders : MoveConstruct(h)
    \/ \E h \in 1..NumHolders : Destroy(h)
    \/ \E str \in Utf8Inputs, fault \in BOOLEAN : ToIcuRawUtf8(str, fault)
    \/ \E s \in 1..NumSources, fault \in BOOLEAN : ToIcuRawWide(s, fault)
    \/ \E text \in WideTexts(wcharSize) : CreateSource(text)
    \/ \E s \in 1..NumSources : ModifySource(s)
    \/ \E s \in 1..NumSources : DestroySource(s)

Spec == Init /\ [][Next]_vars

----------------------------------------------------------------------------
(* Two threads, each obtaining a holder (from UCharBuffer::null() or from  *)
(* to_icu_raw on a UTF-8 string), moving it and destroying both objects.   *)
(* A thread touches only the holders it constructed.                       *)

T_CallNull(t) ==
    /\ pc[t] = "start"
    /\ DoNull
    /\ pc' = [pc EXCEPT ![t] = "made"]
    /\ mine' = [mine EXCEPT ![t] = <<Len(holders) + 1>>]
    /\ UNCHANGED <<wcharSize, codec>>

T_ToIcuRaw(t, str, fault) ==
    /\ pc[t] = "start"
    /\ DoToIcuRawUtf8(str, fault)
    /\ pc' = [pc EXCEPT ![t] = "made"]
    /\ mine' = [mine EXCEPT ![t] = <<Len(holders) + 1>>]
    /\ UNCHANGED <<wcharSize, codec>>

T_Move(t) ==
    /\ pc[t] = "made"
    /\ DoMove(mine[t][1])
    /\ pc' = [pc EXCEPT ![t] = "moved"]
    /\ mine' = [mine EXCEPT ![t] = Append(@, Len(holders) + 1)]
    /\ UNCHANGED <<wcharSize, codec>>

T_Destroy(t, i) ==
    /\ pc[t] = "moved"
    /\ i \in 1..Len(mine[t]) /\ Live(mine[t][i])
    /\ DoDestroy(mine[t][i])
    /\ pc' = [pc EXCEPT ![t] = IF \A j \in 1..Len(mine[t]) : j = i \/ ~Live(mine[t][j])
                               THEN "done" ELSE "moved"]
    /\ UNCHANGED <<wcharSize, mine, codec>>

NextThreads ==
    \/ \E t \in Threads : T_CallNull(t)
    \/ \E t \in Threads, str \in Utf8Inputs, fault \in BOOLEAN : T_ToIcuRaw(t, str, fault)
    \/ \E t \in Threads : T_Move(t)
    \/ \E t \in Threads, i \in 1..2 : T_Destroy(t, i)

SpecThreads == Init /\ [][NextThreads]_vars

----------------------------------------------------------------------------
(* The codec functions applied to bounded inputs *)

\* to_wstring(to_utf8(s))
RoundTripWide(s) ==
    /\ codec = NoRoundTrip
    /\ codec' = [op |-> "wide", arg |-> s, mid |-> to_utf8(wcharSize, s),
                 back |-> to_wstring(wcharSize, to_utf8(wcharSize, s))]
    /\ UNCHANGED <<wcharSize, mem, holders, pc, mine>>

\* to_utf8(to_wstring(b))
RoundTripUtf8(b) ==
    /\ codec = NoRoundTrip
    /\ codec' = [op |-> "utf8", arg |-> b, mid |-> to_wstring(wcharSize, b),
                 back |-> to_utf8(wcharSize, to_wstring(wcharSize, b))]
    /\ UNCHANGED <<wcharSize, mem, holders, pc, mine>>

NextCodec ==
    \/ \E s \in WideStrings(wcharSize) : RoundTripWide(s)
    \/ \E b \in Utf8Strings : RoundTripUtf8(b)

SpecCodec == Init /\ [][NextCodec]_vars

----------------------------------------------------------------------------
(* Properties *)

HasNull(cells) == \E i \in 1..Len(cells) : cells[i] = 0

\* the live holders that own heap block b
OwnersOf(b) ==
    {h \in 1..Len(holders) :
        /\ holders[h].live
        /\ holders[h].buf.m_owned
        /\ holders[h].buf.m_data = HeapPtr(b)}

\* holder h is live and holds the result of a to_icu_raw call
FromToIcuRaw(h) ==
    /\ holders[h].live
    /\ holders[h].made.op \in {"to_icu_raw_utf8", "to_icu_raw_wide"}

\* the input of the to_icu_raw call behind holder h is still alive and unmodified
SourceIntact(h) ==
    \/ holders[h].made.src = 0
    \/ mem.src[holders[h].made.src].state = "alive"

\* C1: memory is released iff owned.  Every heap block has either exactly one
\* live owning holder and no release, or no owner and exactly one release; the
\* static empty buffer and the callers' storage are never released.
C1_ReleasedIffOwned ==
    /\ \A b \in 1..Len(mem.heap) :
           Cardinality(OwnersOf(b)) + mem.heap[b].released = 1
    /\ mem.static.released = 0
    /\ \A s \in 1..Len(mem.src) : mem.src[s].released = 0

\* an owned buffer was moved, the new holder destroyed (block released once),
\* and the moved-from holder is still alive
C1_Witness ==
    \E b \in 1..Len(mem.heap), h \in 1..Len(holders) :
        /\ mem.heap[b].released = 1
        /\ holders[h].live
        /\ holders[h].origin = "moved_from"

\* C2: the holder returned by to_icu_raw (while its input is intact) has a
\* non-null data pointer to live memory that contains a terminating null.
C2_NullTerminated ==
    \A h \in 1..Len(holders) :
        FromToIcuRaw(h) /\ SourceIntact(h) =>
            /\ holders[h].buf.m_data # NullPtr
            /\ Valid(mem, holders[h].buf.m_data)
            /\ HasNull(Cells(mem, holders[h].buf.m_data))

\* the malformed UTF-8 input 0x80 gave an owned, terminated buffer
C2_Witness ==
    \E h \in 1..Len(holders) :
        /\ FromToIcuRaw(h)
        /\ holders[h].made.text = <<128>>
        /\ holders[h].buf.m_owned
        /\ Cells(mem, holders[h].buf.m_data) = <<128, 0>>

\* C3: to_icu_raw of an empty UTF-8 string or of an empty wide string gives a
\* holder whose data points to a null code unit and whose capacity() is 0, on
\* both wchar_t widths.
C3_EmptyInput ==
    \A h \in 1..Len(holders) :
        FromToIcuRaw(h) /\ SourceIntact(h) /\ holders[h].made.text = <<>> =>
            /\ Cells(mem, holders[h].buf.m_data) = <<0>>
            /\ capacity(holders[h].buf) = 0

\* C4: a move-constructed holder carries the members its source had, the
\* moved-from holder is (false, null, 0), destroying it changes no memory, and
\* no heap block has two live owners.
C4_MoveSemantics ==
    /\ \A h \in 1..Len(holders) :
           holders[h].live /\ holders[h].moved # 0 => holders[h].buf = holders[h].was
    /\ \A h \in 1..Len(holders) :
           holders[h].live /\ holders[h].origin = "moved_from" =>
               /\ holders[h].buf = [m_owned |-> FALSE, m_data |-> NullPtr, m_capacity |-> 0]
               /\ Destructor(mem, holders[h].buf) = mem
    /\ \A b \in 1..Len(mem.heap) : Cardinality(OwnersOf(b)) <= 1

\* an owned holder was moved: the new holder owns, the old one is still alive
C4_Witness ==
    \E h \in 1..Len(holders) :
        /\ holders[h].live
        /\ holders[h].moved # 0
        /\ holders[h].buf.m_owned
        /\ holders[holders[h].moved].live
        /\ holders[holders[h].moved].origin = "moved_from"

\* C5: in the two-thread scenario every holder that comes from the empty
\* factory is non-owned, of capacity 0 and points to the static buffer, which
\* is never released and always holds a single 0.
C5_SingletonSafety ==
    /\ \A h \in 1..Len(holders) :
           holders[h].live /\ holders[h].origin = "null" =>
               holders[h].buf = [m_owned |-> FALSE, m_data |-> StaticPtr, m_capacity |-> 0]
    /\ mem.static = [cells |-> <<0>>, released |-> 0]

\* both threads moved their empty holder (one from null(), one from a
\* to_icu_raw call whose second pass failed) and one has destroyed the old one
C5_Witness ==
    /\ pc["t1"] = "moved" /\ pc["t2"] = "moved"
    /\ Len(mine["t1"]) = 2 /\ Len(mine["t2"]) = 2
    /\ holders[mine["t1"][2]].origin = "null"
    /\ holders[mine["t1"][2]].made.op = "null"
    /\ holders[mine["t2"][2]].origin = "null"
    /\ holders[mine["t2"][2]].made.failed
    /\ ~holders[mine["t2"][1]].live

\* C6: capacity() is length + 1 for a holder made by owned(length) and 0 for
\* every non-owned holder, made by non_owned(data) or by null().
C6_Capacity ==
    \A h \in 1..Len(holders) :
        holders[h].live =>
            /\ holders[h].made.op = "owned" =>
                   capacity(holders[h].buf) = holders[h].made.destLen + 1
            /\ holders[h].origin \in {"non_owned", "null"} =>
                   capacity(holders[h].buf) = 0

\* C7: while the input of a to_icu_raw call is intact and the holder it
\* returned (or the one it was moved into) is alive, the holder's data is not
\* released; data dangles only for an aliasing holder whose source is gone.
C7_ValidForInputLifetime ==
    \A h \in 1..Len(holders) :
        FromToIcuRaw(h) =>
            /\ SourceIntact(h) => Valid(mem, holders[h].buf.m_data)
            /\ ~Valid(mem, holders[h].buf.m_data) =>
                   /\ ~holders[h].buf.m_owned
                   /\ wcharSize = 2
                   /\ holders[h].buf.m_data = SrcPtr(holders[h].made.src)
                   /\ ~SourceIntact(h)

\* an aliasing result was moved into another holder while its source lives
C7_Witness ==
    \E h \in 1..Len(holders) :
        /\ FromToIcuRaw(h)
        /\ holders[h].moved # 0
        /\ holders[h].buf.m_data.kind = "src"
        /\ SourceIntact(h)

\* a well-formed wide string of w-byte units
RECURSIVE WellFormedWide(_, _)
WellFormedWide(w, s) ==
    IF s = <<>> THEN TRUE
    ELSE IF w = 4 THEN IsScalar(Head(s)) /\ WellFormedWide(w, Tail(s))
    ELSE IF Head(s) < 55296 \/ Head(s) > 57343 THEN WellFormedWide(w, Tail(s))
    ELSE /\ Head(s) <= 56319
         /\ Len(s) >= 2
         /\ s[2] >= 56320 /\ s[2] <= 57343
         /\ WellFormedWide(w, Tail(Tail(s)))

\* a well-formed UTF-8 byte string (Unicode Standard, table 3-7)
RECURSIVE WellFormedUtf8(_)
WellFormedUtf8(s) ==
    IF s = <<>> THEN TRUE
    ELSE LET b1 == s[1]
             b2 == At(s, 2)
             b3 == At(s, 3)
             b4 == At(s, 4)
         IN IF b1 < 128 THEN WellFormedUtf8(Tail(s))
            ELSE IF b1 >= 194 /\ b1 <= 223
                 THEN IsTrail(b2) /\ WellFormedUtf8(SubSeq(s, 3, Len(s)))
            ELSE IF b1 >= 224 /\ b1 <= 239
                 THEN /\ IsTrail(b2) /\ IsTrail(b3)
                      /\ (b1 = 224 => b2 >= 160)
                      /\ (b1 = 237 => b2 <= 159)
                      /\ WellFormedUtf8(SubSeq(s, 4, Len(s)))
            ELSE IF b1 >= 240 /\ b1 <= 244
                 THEN /\ IsTrail(b2) /\ IsTrail(b3) /\ IsTrail(b4)
                      /\ (b1 = 240 => b2 >= 144)
                      /\ (b1 = 244 => b2 <= 143)
                      /\ WellFormedUtf8(SubSeq(s, 5, Len(s)))
            ELSE FALSE

\* C8: to_wstring(to_utf8(s)) = s for every well-formed wide string,
\* to_utf8(to_wstring(b)) = b for every well-formed UTF-8 string, and "café"
\* (5 bytes) becomes 4 wide characters.
C8_RoundTrip ==
    /\ codec.op = "wide" /\ WellFormedWide(wcharSize, codec.arg) => codec.back = codec.arg
    /\ codec.op = "utf8" /\ WellFormedUtf8(codec.arg) => codec.back = codec.arg
    /\ codec.op = "utf8" /\ codec.arg = CafeUtf8 => codec.mid = CafeWide

\* "café" went to 4 wide characters and back to its 5 bytes
C8_Witness ==
    /\ codec.op = "utf8"
    /\ codec.arg = CafeUtf8
    /\ Len(codec.mid) = 4
    /\ codec.back = CafeUtf8

\* holder h holds the result of a to_icu_raw call that went through the
\* measure / allocate / transcode sequence with a non-zero measured length
Transcoded(h) ==
    /\ FromToIcuRaw(h)
    /\ holders[h].made.op = "to_icu_raw_wide" => wcharSize = 4
    /\ holders[h].made.destLen # 0

\* C9: after a non-zero measure pass, a failing second pass yields the empty
\* singleton, the block allocated for it is released exactly once and no
\* holder points to it; a successful second pass yields the owned holder of
\* capacity length + 1 over that block.
C9_SecondPassFallback ==
    \A h \in 1..Len(holders) :
        Transcoded(h) =>
            /\ holders[h].made.heap1 = holders[h].made.heap0 + 1
            /\ holders[h].made.failed =>
                   /\ holders[h].buf = [m_owned |-> FALSE, m_data |-> StaticPtr,
                                        m_capacity |-> 0]
                   /\ Cells(mem, holders[h].buf.m_data) = <<0>>
                   /\ mem.heap[holders[h].made.heap1].released = 1
                   /\ \A g \in 1..Len(holders) :
                          holders[g].buf.m_data # HeapPtr(holders[h].made.heap1)
            /\ ~holders[h].made.failed =>
                   /\ holders[h].buf = [m_owned |-> TRUE,
                                        m_data |-> HeapPtr(holders[h].made.heap1),
                                        m_capacity |-> holders[h].made.destLen + 1]
                   /\ mem.heap[holders[h].made.heap1].released = 0

\* the second pass failed on a UTF-8 input: empty singleton, block released
C9_Witness ==
    \E h \in 1..Len(holders) :
        /\ Transcoded(h)
        /\ holders[h].made.failed
        /\ holders[h].made.op = "to_icu_raw_utf8"
        /\ holders[h].buf.m_data = StaticPtr
        /\ mem.heap[holders[h].made.heap1].released = 1

\* C10: to_icu_raw on a wide source: with 16-bit wchar_t no allocation and a
\* non-owned holder over the source's own storage; with 32-bit wchar_t never
\* an alias, but the empty singleton (measured length 0 or second-pass
\* failure) or an owned holder of measured length + 1.
C10_WidePath ==
    \A h \in 1..Len(holders) :
        holders[h].live /\ holders[h].made.op = "to_icu_raw_wide" =>
            /\ wcharSize = 2 =>
                   /\ ~holders[h].buf.m_owned
                   /\ holders[h].buf.m_data = SrcPtr(holders[h].made.src)
                   /\ holders[h].made.heap1 = holders[h].made.heap0
            /\ wcharSize = 4 =>
                   /\ holders[h].buf.m_data.kind # "src"
                   /\ \/ /\ holders[h].buf = [m_owned |-> FALSE, m_data |-> StaticPtr,
                                              m_capacity |-> 0]
                         /\ holders[h].made.destLen = 0 \/ holders[h].made.failed
                      \/ /\ holders[h].buf.m_owned
                         /\ holders[h].buf.m_data.kind = "heap"
                         /\ holders[h].made.destLen > 0
                         /\ capacity(holders[h].buf) = holders[h].made.destLen + 1
                         /\ Len(Cells(mem, holders[h].buf.m_data))
                                = holders[h].made.destLen + 1

\* on a 32-bit build a two-character text with a supplementary character
\* gave an owned buffer of 3 + 1 code units
C10_Witness ==
    \E h \in 1..Len(holders) :
        /\ wcharSize = 4
        /\ holders[h].live
        /\ holders[h].made.op = "to_icu_raw_wide"
        /\ holders[h].buf.m_owned
        /\ holders[h].made.destLen = 3

====
